---------------------------- MODULE Spec2Model ----------------------------
(***************************************************************************)
(* Model of the rgmatch-rs analysis scripts:                               *)
(*   scripts/compare_outputs.py  (load_output, analyze_pair)               *)
(*   scripts/verify_matches.py   (parse_region, get_gene_coords,           *)
(*                                verify_upstream_downstream,              *)
(*                                verify_overlap, main)                    *)
(* Text is modelled as sequences of one-character strings, so that         *)
(* concatenation, splitting, substring search and integer parsing are      *)
(* computed the way the scripts compute them.                              *)
(***************************************************************************)
EXTENDS Integers, Sequences, FiniteSets, TLC

VARIABLES rust_output, golden_output, df_rs, df_py, hashOf, summary, sampled, cpc,
          gtf, gene_id, coords,
          row, result,
          nsamples, idx, valid_count, printed, conclusion, vpc

vars == <<rust_output, golden_output, df_rs, df_py, hashOf, summary, sampled, cpc,
          gtf, gene_id, coords, row, result,
          nsamples, idx, valid_count, printed, conclusion, vpc>>

cmpVars == <<rust_output, golden_output, df_rs, df_py, hashOf, summary, sampled, cpc>>
lookupVars == <<gtf, gene_id, coords>>
verdictVars == <<row, result>>
mainVars == <<nsamples, idx, valid_count, printed, conclusion, vpc>>

-----------------------------------------------------------------------------
(* Bounds of the model *)

MaxRows == 2
MaxGtfLines == 2
MaxSamples == 11
MaxGroup == 6

-----------------------------------------------------------------------------
(* Text: characters in ASCII order, Python str operations *)

Alphabet ==
  <<"\t", "\n", " ", "\"", "#", "+", "-", ".",
    "0", "1", "2", "3", "4", "5", "6", "7", "8", "9", ";",
    "A", "B", "C", "D", "E", "F", "G", "H", "I", "M", "N", "O", "P", "R",
    "S", "T", "U", "V", "W", "X", "Y", "_", "c", "d", "e", "g", "i", "n", "o",
    "x">>

Ord(c) == CHOOSE i \in 1..Len(Alphabet) : Alphabet[i] = c

DigitVal(c) == Ord(c) - Ord("0")

IsSpace(c) == c \in {" ", "\t", "\n"}

Max(a, b) == IF a >= b THEN a ELSE b

Min(a, b) == IF a <= b THEN a ELSE b

Abs(a) == IF a < 0 THEN -a ELSE a

\* Python's a // b (floor division), b # 0
PyFloorDiv(a, b) == IF b > 0 THEN a \div b ELSE (-a) \div (-b)

\* Python's a % b for b > 0 (the result is in 0..b-1)
PyMod(a, b) == a % b

\* str(n) for an integer n
RECURSIVE NatToStr(_)
NatToStr(n) ==
  IF n < 10 THEN <<Alphabet[Ord("0") + n]>>
  ELSE NatToStr(n \div 10) \o <<Alphabet[Ord("0") + (n % 10)]>>

IntToStr(n) == IF n < 0 THEN <<"-">> \o NatToStr(-n) ELSE NatToStr(n)

\* int(s) for an optionally signed decimal literal
RECURSIVE ParseNat(_)
ParseNat(s) ==
  IF Len(s) = 0 THEN 0
  ELSE 10 * ParseNat(SubSeq(s, 1, Len(s) - 1)) + DigitVal(s[Len(s)])

ParseInt(s) ==
  IF Len(s) > 0 /\ s[1] = "-" THEN -ParseNat(Tail(s)) ELSE ParseNat(s)

\* s.startswith(p)
StartsWith(s, p) == Len(s) >= Len(p) /\ SubSeq(s, 1, Len(p)) = p

\* sub in s
Contains(sub, s) ==
  \E i \in 1..(Len(s) - Len(sub) + 1) : SubSeq(s, i, i + Len(sub) - 1) = sub

\* s.strip()
RECURSIVE LStrip(_)
LStrip(s) == IF Len(s) > 0 /\ IsSpace(s[1]) THEN LStrip(Tail(s)) ELSE s

RECURSIVE RStrip(_)
RStrip(s) ==
  IF Len(s) > 0 /\ IsSpace(s[Len(s)]) THEN RStrip(SubSeq(s, 1, Len(s) - 1)) ELSE s

Strip(s) == RStrip(LStrip(s))

\* s.split(sep) for a one-character separator
RECURSIVE Split(_, _)
Split(s, sep) ==
  IF \A i \in 1..Len(s) : s[i] # sep THEN <<s>>
  ELSE LET p == CHOOSE i \in 1..Len(s) :
                  s[i] = sep /\ \A j \in 1..(i - 1) : s[j] # sep
       IN <<SubSeq(s, 1, p - 1)>> \o Split(SubSeq(s, p + 1, Len(s)), sep)

\* s.rsplit(sep, maxsplit) for a one-character separator
RECURSIVE RSplit(_, _, _)
RSplit(s, sep, maxsplit) ==
  IF maxsplit = 0 \/ \A i \in 1..Len(s) : s[i] # sep THEN <<s>>
  ELSE LET p == CHOOSE i \in 1..Len(s) :
                  s[i] = sep /\ \A j \in (i + 1)..Len(s) : s[j] # sep
       IN RSplit(SubSeq(s, 1, p - 1), sep, maxsplit - 1)
            \o <<SubSeq(s, p + 1, Len(s))>>

\* sep.join(parts)
RECURSIVE Join(_, _)
Join(parts, sep) ==
  IF Len(parts) = 0 THEN <<>>
  ELSE IF Len(parts) = 1 THEN parts[1]
  ELSE parts[1] \o <<sep>> \o Join(Tail(parts), sep)

\* a < b for str (lexicographic by code point)
RECURSIVE StrLess(_, _)
StrLess(a, b) ==
  IF Len(b) = 0 THEN FALSE
  ELSE IF Len(a) = 0 THEN TRUE
  ELSE IF a[1] # b[1] THEN Ord(a[1]) < Ord(b[1])
  ELSE StrLess(Tail(a), Tail(b))

\* sorted(S) for a finite set of str
RECURSIVE SortedStrs(_)
SortedStrs(S) ==
  IF S = {} THEN <<>>
  ELSE LET m == CHOOSE x \in S : \A y \in S \ {x} : StrLess(x, y)
       IN <<m>> \o SortedStrs(S \ {m})

Range(f) == {f[i] : i \in DOMAIN f}

\* the concatenation of a sequence of sequences
RECURSIVE Flatten(_)
Flatten(ss) == IF Len(ss) = 0 THEN <<>> ELSE Head(ss) \o Flatten(Tail(ss))

\* s.head(n) for n >= 0
HeadN(s, n) == SubSeq(s, 1, Min(n, Len(s)))


-----------------------------------------------------------------------------
(* compare_outputs.py *)

SampleCap == 20
QuotaMod == 5

\* Area labels, as text
UPSTREAM == <<"U", "P", "S", "T", "R", "E", "A", "M">>
DOWNSTREAM == <<"D", "O", "W", "N", "S", "T", "R", "E", "A", "M">>
INTRON == <<"I", "N", "T", "R", "O", "N">>
GENE_BODY == <<"G", "E", "N", "E", "_", "B", "O", "D", "Y">>
FIRST_EXON == <<"F", "I", "R", "S", "T", "_", "E", "X", "O", "N">>

\* a Region cell: chrom_start_end
MkRegion(chrom, start, end) ==
  chrom \o <<"_">> \o IntToStr(start) \o <<"_">> \o IntToStr(end)

\* one parsed row of a matcher output file (the columns the scripts read)
MkRow(region, gene, transcript, area) ==
  [Region |-> region, Gene |-> gene, Transcript |-> transcript, Area |-> area]

\* df["_key"] = Region + "_" + Gene + "_" + Transcript + "_" + Area
MatchKey(r) ==
  r.Region \o <<"_">> \o r.Gene \o <<"_">> \o r.Transcript \o <<"_">> \o r.Area

\* load_output: every row of the file, in order, with its key
load_output(file) ==
  [i \in 1..Len(file) |->
     [Region |-> file[i].Region, Gene |-> file[i].Gene,
      Transcript |-> file[i].Transcript, Area |-> file[i].Area,
      key |-> MatchKey(file[i])]]

\* set(df["_key"])
KeySet(df) == {df[i].key : i \in 1..Len(df)}

\* rs_only without the difference: every key of the left side
rs_only_all_keys(rs, py) == KeySet(rs)

rs_only(rs, py) == KeySet(rs) \ KeySet(py)

py_only(rs, py) == KeySet(py) \ KeySet(rs)

common(rs, py) == KeySet(rs) \cap KeySet(py)

\* df_rs[df_rs["_key"].isin(rs_only)], as the row labels kept, in file order
rust_only_rows(rs, py) ==
  LET Keep(i) == rs[i].key \in rs_only(rs, py)
  IN SelectSeq([i \in 1..Len(rs) |-> i], Keep)

\* sample_size = min(20, len(rust_only_rows))
sample_size(rs, py) == Min(SampleCap, Len(rust_only_rows(rs, py)))

\* the groups of groupby("Area"): the labels present among the given rows
GroupLabels(rs, rows) == {rs[rows[k]].Area : k \in 1..Len(rows)}

\* one group: the row labels of that Area, in file order
GroupRows(rs, rows, area) ==
  LET InGroup(i) == rs[i].Area = area
  IN SelectSeq(rows, InGroup)

\* max(1, sample_size // x.name.__hash__() % 5 + 1)
Quota(size, h) == Max(1, PyMod(PyFloorDiv(size, h), QuotaMod) + 1)

\* groupby("Area", group_keys=False).apply(lambda x: x.head(quota)):
\* groups are visited in sorted label order and their heads concatenated;
\* when every head is its whole group (no group's index changed) pandas
\* returns the rows re-indexed to the original row order.
GroupApply(rs, rows, size, h) ==
  LET labels == SortedStrs(GroupLabels(rs, rows))
      head(g) == HeadN(GroupRows(rs, rows, g), Quota(size, h[g]))
      unchanged == \A k \in 1..Len(labels) :
                     Len(head(labels[k])) = Len(GroupRows(rs, rows, labels[k]))
  IN IF unchanged THEN rows
     ELSE Flatten([k \in 1..Len(labels) |-> head(labels[k])])

\* ... .head(sample_size), as the rows written to the sample file
Sample(rs, py, h) ==
  LET rows == rust_only_rows(rs, py)
      size == sample_size(rs, py)
      kept == HeadN(GroupApply(rs, rows, size, h), size)
  IN [k \in 1..Len(kept) |-> rs[kept[k]]]

\* the dict analyze_pair returns
Summary(rs, py) ==
  [label |-> "main",
   rust_total |-> Len(rs),
   python_total |-> Len(py),
   rust_only |-> Cardinality(rs_only(rs, py)),
   python_only |-> Cardinality(py_only(rs, py)),
   common |-> Cardinality(common(rs, py))]

\* hash() of a str: a nonzero value fixed per process (hash randomisation)
HashVals == {-1000003, 7}

NoSummary == [label |-> "none"]

\* main(): load both files
LoadOutputs ==
  /\ cpc = "start"
  /\ df_rs' = load_output(rust_output)
  /\ df_py' = load_output(golden_output)
  /\ cpc' = "loaded"
  /\ UNCHANGED <<rust_output, golden_output, hashOf, summary, sampled>>
  /\ UNCHANGED <<lookupVars, verdictVars, mainVars>>

\* main(): analyze_pair, then save the summary
AnalyzePair ==
  /\ cpc = "loaded"
  /\ \E h \in [GroupLabels(df_rs, rust_only_rows(df_rs, df_py)) -> HashVals] :
       /\ hashOf' = h
       /\ sampled' = IF sample_size(df_rs, df_py) > 0
                     THEN Sample(df_rs, df_py, h)
                     ELSE sampled
  /\ summary' = Summary(df_rs, df_py)
  /\ cpc' = "done"
  /\ UNCHANGED <<rust_output, golden_output, df_rs, df_py>>
  /\ UNCHANGED <<lookupVars, verdictVars, mainVars>>

NoCoords == [gene_start |-> <<>>, gene_end |-> <<>>, strand |-> <<>>]
NoResult == [none |-> TRUE]
NothingPrinted == [valid |-> 0, invalid |-> 0, notfound |-> 0]

IdleLookup == gtf = <<>> /\ gene_id = <<>> /\ coords = NoCoords
IdleVerdict == row = <<>> /\ result = NoResult
IdleMain ==
  /\ nsamples = 0 /\ idx = 0 /\ valid_count = 0
  /\ printed = NothingPrinted /\ conclusion = "none" /\ vpc = "idle"
IdleCompare ==
  /\ rust_output = <<>> /\ golden_output = <<>>
  /\ df_rs = <<>> /\ df_py = <<>> /\ hashOf = <<>>
  /\ summary = NoSummary /\ sampled = <<>> /\ cpc = "idle"

\* the rows the two compared files are made of
ChromC == <<"c">>
GeneA == <<"A">>
GeneAB == <<"A", "_", "B">>
TransC == <<"C">>
TransBC == <<"B", "_", "C">>

RowPool ==
  { MkRow(MkRegion(ChromC, 1, 2), GeneA, TransBC, UPSTREAM),
    MkRow(MkRegion(ChromC, 1, 2), GeneAB, TransC, UPSTREAM),
    MkRow(MkRegion(ChromC, 1, 2), GeneA, TransC, INTRON),
    MkRow(MkRegion(ChromC, 3, 4), GeneA, TransC, UPSTREAM) }

SeqsUpTo(S, n) == UNION {[1..k -> S] : k \in 0..n}

InitDiff ==
  /\ rust_output \in SeqsUpTo(RowPool, MaxRows)
  /\ golden_output \in SeqsUpTo(RowPool, MaxRows)
  /\ df_rs = <<>> /\ df_py = <<>>
  /\ hashOf = <<>> /\ summary = NoSummary /\ sampled = <<>> /\ cpc = "start"
  /\ IdleLookup /\ IdleVerdict /\ IdleMain

NextDiff == LoadOutputs \/ AnalyzePair

SpecDiff == InitDiff /\ [][NextDiff]_vars

-----------------------------------------------------------------------------
(* verify_matches.py *)

ConfigDistance == 10000
Tolerance == 10
VerifyLimit == 10
ExpectedValid == 10

\* an optional value: <<>> is None, <<v>> is the value v
Some(v) == <<v>>
IsNone(o) == o = <<>>
Val(o) == o[1]

\* parse_region: 'chr_start_end', split from the right
parse_region(region_str) ==
  LET parts == RSplit(region_str, "_", 2)
  IN [chrom |-> parts[1],
      start |-> ParseInt(parts[2]),
      end |-> ParseInt(parts[3]),
      midpoint |-> PyFloorDiv(ParseInt(parts[2]) + ParseInt(parts[3]), 2)]

GENE == <<"g", "e", "n", "e">>

\* get_gene_coords: the first line that contains gene_id, is no comment, has
\* nine fields or more and is a 'gene' feature
RECURSIVE get_gene_coords(_, _)
get_gene_coords(lines, id) ==
  IF Len(lines) = 0 THEN NoCoords
  ELSE LET line == Head(lines)
           fields == Split(Strip(line), "\t")
       IN IF ~Contains(id, line) \/ StartsWith(line, <<"#">>)
            THEN get_gene_coords(Tail(lines), id)
          ELSE IF Len(fields) < 9
            THEN get_gene_coords(Tail(lines), id)
          ELSE IF fields[3] = GENE
            THEN [gene_start |-> Some(ParseInt(fields[4])),
                  gene_end |-> Some(ParseInt(fields[5])),
                  strand |-> Some(fields[7])]
          ELSE get_gene_coords(Tail(lines), id)

\* the directional verdict with the threshold applied to the computed
\* distance and a strict tolerance
verify_upstream_downstream_computed(region, gene_start, gene_end, reported_distance, config_distance) ==
  LET actual_distance ==
        IF region.midpoint < gene_start THEN gene_start - region.midpoint
        ELSE IF region.midpoint > gene_end THEN region.midpoint - gene_end
        ELSE 0
      is_valid == actual_distance <= config_distance
  IN [valid |-> is_valid,
      reported_distance |-> reported_distance,
      calculated_distance |-> actual_distance,
      distance_matches |-> Abs(actual_distance - reported_distance) < Tolerance,
      within_threshold |-> is_valid]

verify_upstream_downstream(region, gene_start, gene_end, reported_distance, config_distance) ==
  LET actual_distance ==
        IF region.midpoint < gene_start THEN gene_start - region.midpoint
        ELSE IF region.midpoint > gene_end THEN region.midpoint - gene_end
        ELSE 0
      is_valid == reported_distance <= config_distance
  IN [valid |-> is_valid,
      reported_distance |-> reported_distance,
      calculated_distance |-> actual_distance,
      distance_matches |-> Abs(actual_distance - reported_distance) <= Tolerance,
      within_threshold |-> is_valid]

\* the overlap verdict with touching intervals counted as overlapping
verify_overlap_closed(region, gene_start, gene_end) ==
  LET overlaps == region.start <= gene_end /\ region.end >= gene_start
  IN [valid |-> overlaps, overlaps_gene |-> overlaps]

verify_overlap(region, gene_start, gene_end) ==
  LET overlaps == region.start < gene_end /\ region.end > gene_start
  IN [valid |-> overlaps, overlaps_gene |-> overlaps]

\* line.strip().split('\t') of one line of the sample file
SampleFields(line) == Split(Strip(line), "\t")

\* the columns main() reads from a sample row
RowRegion(line) == SampleFields(line)[1]
RowGene(line) == SampleFields(line)[3]
RowArea(line) == SampleFields(line)[6]
RowDistance(line) ==
  IF SampleFields(line)[7] # <<>> THEN ParseInt(SampleFields(line)[7]) ELSE 0

\* the verdict main() computes for a row whose gene was found
Verdict(line, c) ==
  IF RowArea(line) \in {UPSTREAM, DOWNSTREAM}
  THEN verify_upstream_downstream(parse_region(RowRegion(line)),
         Val(c.gene_start), Val(c.gene_end), RowDistance(line), ConfigDistance)
  ELSE verify_overlap(parse_region(RowRegion(line)),
         Val(c.gene_start), Val(c.gene_end))

\* the body of the loop of main() for one row: look the gene up, skip the
\* row when it is not found, otherwise compute and print the verdict
LoopBody(line) ==
  LET c == get_gene_coords(gtf, RowGene(line))
      r == Verdict(line, c)
  IN /\ gene_id' = RowGene(line)
     /\ coords' = c
     /\ IF IsNone(c.gene_start)
          THEN /\ result' = NoResult
               /\ printed' = [printed EXCEPT !.notfound = @ + 1]
               /\ valid_count' = valid_count
          ELSE /\ result' = r
               /\ printed' = IF r.valid
                             THEN [printed EXCEPT !.valid = @ + 1]
                             ELSE [printed EXCEPT !.invalid = @ + 1]
               /\ valid_count' = IF r.valid THEN valid_count + 1
                                 ELSE valid_count
     /\ idx' = idx + 1

\* the conclusion main() prints
Conclude(count) ==
  IF count = ExpectedValid THEN "ALL_VALID"
  ELSE IF count = 0 THEN "ALL_INVALID"
  ELSE "MIXED"

-----------------------------------------------------------------------------
(* Annotation files and sample files the model reads *)

TAB == "\t"
NL == <<"\n">>

G1 == <<"G", "1">>
G10 == <<"G", "1", "0">>
G2 == <<"G", "2">>
PLUS == <<"+">>
MINUS == <<"-">>
EXON == <<"e", "x", "o", "n">>
PROMOTER == <<"P", "R", "O", "M", "O", "T", "E", "R">>

\* column 9 of an annotation line: gene_id "<id>";
GeneAttr(id) ==
  <<"g", "e", "n", "e", "_", "i", "d", " ", "\"">> \o id \o <<"\"", ";">>

\* one annotation line of nine tab-separated columns
GtfLine(feature, start, end, strand, id) ==
  Join(<<ChromC, <<"x">>, feature, IntToStr(start), IntToStr(end), <<".">>,
         strand, <<".">>, GeneAttr(id)>>, TAB) \o NL

\* a comment line, and a line cut short after five columns
CommentLine(id) == <<"#", " ">> \o GeneAttr(id) \o NL
ShortLine(id) == Join(<<id, <<"x">>, GENE, IntToStr(1), IntToStr(2)>>, TAB) \o NL

\* one row of the sample file: the thirteen columns and the key column
SampleLine(region, gene, area, distance) ==
  Join(<<region, <<"0">>, gene, TransC, <<"1">>, area, distance, <<"0">>,
         <<"0">>, <<"0">>, <<"x">>, <<"x">>, <<"x">>,
         MatchKey(MkRow(region, gene, TransC, area))>>, TAB) \o NL

-----------------------------------------------------------------------------
(* get_gene_coords on small annotation files (SpecLookup) *)

GtfPool ==
  { GtfLine(GENE, 10, 20, PLUS, G1),
    GtfLine(GENE, 30, 40, MINUS, G10),
    GtfLine(EXON, 12, 15, PLUS, G1),
    GtfLine(GENE, 50, 60, PLUS, G2),
    CommentLine(G1),
    ShortLine(G1) }

InitLookup ==
  /\ gtf \in SeqsUpTo(GtfPool, MaxGtfLines)
  /\ gene_id \in {G1, G10, G2}
  /\ coords = NoCoords
  /\ vpc = "lookup"
  /\ row = <<>> /\ result = NoResult
  /\ nsamples = 0 /\ idx = 0 /\ valid_count = 0
  /\ printed = NothingPrinted /\ conclusion = "none"
  /\ IdleCompare

Lookup ==
  /\ vpc = "lookup"
  /\ coords' = get_gene_coords(gtf, gene_id)
  /\ vpc' = "found"
  /\ UNCHANGED <<gtf, gene_id, row, result>>
  /\ UNCHANGED <<nsamples, idx, valid_count, printed, conclusion>>
  /\ UNCHANGED cmpVars

NextLookup == Lookup

SpecLookup == InitLookup /\ [][NextLookup]_vars

-----------------------------------------------------------------------------
(* the verdict of one sample row (SpecVerdict) *)

MaxCoord == 8

\* the annotation file of the verdict runs: a gene next to the regions and
\* one further away
VerdictGtf ==
  <<CommentLine(G2), GtfLine(GENE, 3, 5, PLUS, G1),
    GtfLine(GENE, 25, 30, MINUS, G2)>>

ChromC1 == <<"c", "_", "1">>

\* the Distance column: empty, around the tolerance, around the threshold
DistanceCells ==
  { <<>>, IntToStr(-3), IntToStr(0), IntToStr(7), IntToStr(15),
    IntToStr(ConfigDistance), IntToStr(ConfigDistance + 1) }

InitVerdict ==
  /\ gtf = VerdictGtf
  /\ \E chrom \in {ChromC, ChromC1}, s \in 0..MaxCoord, area \in
         {UPSTREAM, DOWNSTREAM, INTRON, GENE_BODY, FIRST_EXON, PROMOTER} :
       \E e \in s..MaxCoord, g \in {G1, G2, G10}, d \in DistanceCells :
         row = SampleLine(MkRegion(chrom, s, e), g, area, d)
  /\ gene_id = <<>> /\ coords = NoCoords /\ result = NoResult
  /\ vpc = "verify"
  /\ nsamples = 1 /\ idx = 0 /\ valid_count = 0
  /\ printed = NothingPrinted /\ conclusion = "none"
  /\ IdleCompare

\* one pass of the loop of main() over the row
VerifyRow ==
  /\ vpc = "verify"
  /\ LoopBody(row)
  /\ vpc' = "verified"
  /\ UNCHANGED <<gtf, row, nsamples, conclusion>>
  /\ UNCHANGED cmpVars

NextVerdict == VerifyRow

SpecVerdict == InitVerdict /\ [][NextVerdict]_vars

-----------------------------------------------------------------------------
(* main() of verify_matches.py over a sample file (SpecMain) *)

\* the rows a sample file is made of: valid and invalid of either policy,
\* and one whose gene the annotation file lacks
MainRows ==
  { SampleLine(MkRegion(ChromC, 0, 2), G1, UPSTREAM, IntToStr(7)),
    SampleLine(MkRegion(ChromC, 0, 2), G1, UPSTREAM, IntToStr(ConfigDistance + 1)),
    SampleLine(MkRegion(ChromC, 4, 6), G1, INTRON, <<>>),
    SampleLine(MkRegion(ChromC, 6, 8), G1, INTRON, <<>>),
    SampleLine(MkRegion(ChromC, 4, 6), G10, INTRON, <<>>) }

InitMain ==
  /\ gtf = VerdictGtf
  /\ nsamples \in 0..MaxSamples
  /\ idx = 0 /\ valid_count = 0
  /\ printed = NothingPrinted /\ conclusion = "none" /\ vpc = "loop"
  /\ row = <<>> /\ result = NoResult /\ gene_id = <<>> /\ coords = NoCoords
  /\ IdleCompare

\* for i, row in enumerate(samples[:10]): the next row of the sample file
VerifySample ==
  /\ vpc = "loop"
  /\ idx < Min(nsamples, VerifyLimit)
  /\ \E line \in MainRows : row' = line /\ LoopBody(line)
  /\ UNCHANGED <<gtf, nsamples, conclusion, vpc>>
  /\ UNCHANGED cmpVars

\* the summary and the conclusion printed after the loop
PrintConclusion ==
  /\ vpc = "loop"
  /\ idx = Min(nsamples, VerifyLimit)
  /\ conclusion' = Conclude(valid_count)
  /\ vpc' = "done"
  /\ UNCHANGED <<gtf, gene_id, coords, row, result>>
  /\ UNCHANGED <<nsamples, idx, valid_count, printed>>
  /\ UNCHANGED cmpVars

NextMain == VerifySample \/ PrintConclusion

SpecMain == InitMain /\ [][NextMain]_vars

-----------------------------------------------------------------------------
(* Claims about the comparison (SpecDiff) *)

\* no match key occurs twice within the loaded collection
UniqueKeys(df) ==
  \A i, j \in 1..Len(df) : df[i].key = df[j].key => i = j

\* the keys that two or more rows of the collection carry
DuplicateKeys(df) ==
  {df[i].key : i \in {a \in 1..Len(df) :
                        \E b \in 1..Len(df) : b # a /\ df[b].key = df[a].key}}

\* the rows of a whose key also occurs in b
RowsSharedWith(a, b) == {i \in 1..Len(a) : a[i].key \in KeySet(b)}

\* C1: when no key occurs twice within one side, the counts analyze_pair
\* reports satisfy rust_only + common = rust_total and
\* python_only + common = python_total, and common is the number of shared
\* rows seen from either side.
C1_SetAlgebra ==
  (cpc = "done" /\ UniqueKeys(df_rs) /\ UniqueKeys(df_py)) =>
    /\ summary.rust_only + summary.common = summary.rust_total
    /\ summary.python_only + summary.common = summary.python_total
    /\ summary.common = Cardinality(RowsSharedWith(df_rs, df_py))
    /\ summary.common = Cardinality(RowsSharedWith(df_py, df_rs))

C1_Witness ==
  /\ cpc = "done" /\ UniqueKeys(df_rs) /\ UniqueKeys(df_py)
  /\ summary.rust_only > 0 /\ summary.python_only > 0 /\ summary.common > 0

\* C2: whenever one side holds two or more records with the same match key,
\* the result reports those keys as a category of their own (ambiguous_keys)
\* and they are counted in none of the exclusive or common counts.
C2_AmbiguousKeysReported ==
  (cpc = "done" /\ (~UniqueKeys(df_rs) \/ ~UniqueKeys(df_py))) =>
    /\ "ambiguous_keys" \in DOMAIN summary
    /\ summary.ambiguous_keys = DuplicateKeys(df_rs) \cup DuplicateKeys(df_py)
    /\ summary.rust_only =
         Cardinality(rs_only(df_rs, df_py) \ DuplicateKeys(df_rs))
    /\ summary.common =
         Cardinality(common(df_rs, df_py)
                       \ (DuplicateKeys(df_rs) \cup DuplicateKeys(df_py)))

\* the four fields a match asserts
SameAssertion(r1, r2) ==
  /\ r1.Region = r2.Region /\ r1.Gene = r2.Gene
  /\ r1.Transcript = r2.Transcript /\ r1.Area = r2.Area

\* C10: two loaded records have equal match keys if and only if they agree
\* on region, gene, transcript and area.
C10_KeyIdentifiesAssertion ==
  cpc # "start" =>
    \A r1, r2 \in Range(df_rs) \cup Range(df_py) :
      (r1.key = r2.key) <=> SameAssertion(r1, r2)

-----------------------------------------------------------------------------
(* The sampler on larger inputs (SpecSample) *)

\* the Area labels of the generated files, in sorted order
SampleAreas == <<DOWNSTREAM, FIRST_EXON, GENE_BODY, INTRON, UPSTREAM>>

\* group sizes tried per Area: absent, single, larger than any quota
GroupSizes == {0, 1, MaxGroup}

Reverse(s) == [i \in 1..Len(s) |-> s[Len(s) + 1 - i]]

\* a file whose rows come in blocks, one block of cnt[a] rows per Area a,
\* every row with a Region of its own
RECURSIVE BlockFile(_, _, _)
BlockFile(cnt, a, first) ==
  IF a > Len(SampleAreas) THEN <<>>
  ELSE [j \in 1..cnt[a] |->
          MkRow(MkRegion(ChromC, first + j, first + j + 1), GeneA, TransC,
                SampleAreas[a])]
         \o BlockFile(cnt, a + 1, first + cnt[a])

InitSample ==
  /\ \E cnt \in [1..Len(SampleAreas) -> GroupSizes] :
       rust_output \in {BlockFile(cnt, 1, 0), Reverse(BlockFile(cnt, 1, 0))}
  /\ golden_output = <<>>
  /\ df_rs = <<>> /\ df_py = <<>>
  /\ hashOf = <<>> /\ summary = NoSummary /\ sampled = <<>> /\ cpc = "start"
  /\ IdleLookup /\ IdleVerdict /\ IdleMain

\* the script is run again on the same records, possibly listed in another
\* order; the sample file of the previous run is still on disk
RunAgain ==
  /\ cpc = "done"
  /\ rust_output' \in {rust_output, Reverse(rust_output)}
  /\ cpc' = "start"
  /\ df_rs' = <<>> /\ df_py' = <<>> /\ hashOf' = <<>>
  /\ UNCHANGED <<golden_output, summary, sampled>>
  /\ UNCHANGED <<lookupVars, verdictVars, mainVars>>

NextSample == LoadOutputs \/ AnalyzePair \/ RunAgain

SpecSample == InitSample /\ [][NextSample]_vars

\* the Area values among the rows exclusive to the left side
ExclusiveAreas == GroupLabels(df_rs, rust_only_rows(df_rs, df_py))

\* C3: for a non-empty set of exclusive-to-left records the sample holds at
\* most target_size = min(20, number of records) records, and when the
\* records span k <= target_size Area values every one of them appears in
\* the sample.
C3_SampleCoversAreas ==
  (cpc = "done" /\ sample_size(df_rs, df_py) > 0) =>
    /\ Len(sampled) <= sample_size(df_rs, df_py)
    /\ Cardinality(ExclusiveAreas) <= sample_size(df_rs, df_py) =>
         \A a \in ExclusiveAreas : \E k \in 1..Len(sampled) : sampled[k].Area = a

\* C4: a second run of the sampler on the same record collection selects
\* exactly the records the first run selected, whatever the hash of the
\* group labels and the order of the rows.
C4_SampleDeterministic ==
  [][(cpc = "loaded" /\ cpc' = "done" /\ summary # NoSummary
        /\ sample_size(df_rs, df_py) > 0)
       => Range(sampled') = Range(sampled)]_vars

-----------------------------------------------------------------------------
(* Claims about the verifier (SpecVerdict, SpecLookup, SpecMain) *)

Directional(line) == RowArea(line) \in {UPSTREAM, DOWNSTREAM}

Found == ~IsNone(coords.gene_start)

\* C7: for an UPSTREAM or DOWNSTREAM record the computed distance is
\* gene_start - midpoint left of the gene, midpoint - gene_end right of it
\* and 0 otherwise; valid is true exactly when the reported distance is at
\* most the configured maximum (10000); the distance matches exactly when it
\* differs from the computed one by at most 10.
C7_DirectionalVerdict ==
  (vpc = "verified" /\ Found /\ Directional(row)
     /\ Val(coords.gene_start) <= Val(coords.gene_end)) =>
    LET m == parse_region(RowRegion(row)).midpoint
        gs == Val(coords.gene_start)
        ge == Val(coords.gene_end)
        d == RowDistance(row)
        computed == IF m < gs THEN gs - m ELSE IF m > ge THEN m - ge ELSE 0
    IN /\ result.calculated_distance = computed
       /\ result.valid = (d <= 10000)
       /\ result.distance_matches =
            (computed - d <= 10 /\ d - computed <= 10)

C7_Witness ==
  /\ vpc = "verified" /\ Found /\ Directional(row)
  /\ result.calculated_distance = 17
  /\ RowDistance(row) = 7
  /\ result.valid /\ result.distance_matches

\* C8: for a record of any other area, valid is true exactly when
\* region.start < gene.end and region.end > gene.start, whatever distance
\* the record reports.
C8_OverlapVerdict ==
  (vpc = "verified" /\ Found /\ ~Directional(row)) =>
    LET parts == RSplit(RowRegion(row), "_", 2)
    IN result.valid =
         (ParseInt(parts[2]) < Val(coords.gene_end)
            /\ ParseInt(parts[3]) > Val(coords.gene_start))

C8_Witness ==
  /\ vpc = "verified" /\ Found /\ RowArea(row) = GENE_BODY
  /\ RowDistance(row) > ConfigDistance
  /\ parse_region(RowRegion(row)).start = 4
  /\ result.valid

\* the annotation lines that are no comment and describe a gene whose
\* identifier is exactly id
ExactGeneLines(lines, id) ==
  {i \in 1..Len(lines) :
     LET fields == Split(Strip(lines[i]), "\t")
     IN /\ lines[i][1] # "#"
        /\ Len(fields) >= 9
        /\ fields[3] = GENE
        /\ fields[9] = GeneAttr(id)}

\* C9: the lookup returns start, end and strand of the first non-comment
\* gene record whose identifier is exactly gene_id, and NotFound when there
\* is none; never the coordinates of a gene with another identifier.
C9_ExactLookup ==
  vpc = "found" =>
    LET hits == ExactGeneLines(gtf, gene_id)
    IN IF hits = {} THEN coords = NoCoords
       ELSE LET first == CHOOSE i \in hits : \A j \in hits : i <= j
                fields == Split(Strip(gtf[first]), "\t")
            IN coords = [gene_start |-> Some(ParseInt(fields[4])),
                         gene_end |-> Some(ParseInt(fields[5])),
                         strand |-> Some(fields[7])]

\* C5: the conclusion is 'all valid' exactly when every verified record is
\* valid, 'all invalid' exactly when none is, and 'mixed' otherwise, for
\* every number of records in the sample file (with no verified record both
\* of the first two describe the run).
C5_ConclusionTrichotomy ==
  vpc = "done" =>
    LET verified == printed.valid + printed.invalid
    IN IF verified = 0 THEN conclusion \in {"ALL_VALID", "ALL_INVALID"}
       ELSE IF printed.invalid = 0 THEN conclusion = "ALL_VALID"
       ELSE IF printed.valid = 0 THEN conclusion = "ALL_INVALID"
       ELSE conclusion = "MIXED"

\* C6: a record whose gene is not found counts neither as valid nor as
\* invalid when the conclusion is chosen: a run over ten records in which
\* every found record is valid (is invalid) concludes 'all valid'
\* ('all invalid'), however many records were not found.
C6_NotFoundExcluded ==
  (vpc = "done" /\ idx = VerifyLimit /\ printed.notfound > 0) =>
    /\ (printed.valid > 0 /\ printed.invalid = 0) => conclusion = "ALL_VALID"
    /\ (printed.invalid > 0 /\ printed.valid = 0) => conclusion = "ALL_INVALID"
    /\ (printed.invalid > 0 /\ printed.valid > 0) => conclusion = "MIXED"

=============================================================================
